---- MODULE Spec2Model ----
(***************************************************************************)
(* The WiFi extender daemon (service/daemon.py) and the four collaborators *)
(* it drives (core/interface_manager.py, core/connection_manager.py,       *)
(* core/ap_service.py, core/bridge_service.py).                            *)
(*                                                                         *)
(* The world record w holds the Python objects' fields together with the   *)
(* operating-system resources the external commands act on, and the log    *)
(* of the collaborator calls the daemon has issued (what a mock of each    *)
(* collaborator would record).  Every method is an operator from a world   *)
(* to a result [ok, raised, w]; the methods of run() are the actions.      *)
(***************************************************************************)
EXTENDS Naturals, Sequences, FiniteSets

VARIABLES
    pc,         \* position of run(): idle, init, start, loop, recover, stop, done
    running,    \* WiFiExtenderDaemon.running
    config,     \* keys present in WiFiExtenderDaemon.config
    dhclient,   \* environment: the dhclient binary is installed
    w,          \* objects' fields, OS resources, call log
    result,     \* what run() learnt from initialize_services / start_services
    stopAt,     \* length of w.calls when stop_services was entered
    ticks,      \* loop iterations executed
    recoveryFails, \* consecutive loop iterations whose recovery start failed
    pending,    \* calls of start_services made by the loop that have not returned
    stops,      \* calls of stop_services made by run()
    ret         \* what the latest directly driven collaborator call returned

vars == <<pc, running, config, dhclient, w, result, stopAt, ticks, recoveryFails,
          pending, stops, ret>>

\* Loop iterations explored.
MaxTicks == 4

\* Longest rule list a BridgeService is driven to.
MaxStack == 6

\* The three iptables rules of setup_routing, by position in its list.
NumRules == 3

\* Lines the dnsmasq lease file is driven to.
MaxLeases == 2

\* Hardware addresses of the client devices.
MACs == {"aa", "bb", "cc"}

ConfigKeys == {"upstream", "ap"}

\* Outcomes of the external commands of connect_to_network.
ConnOutcomes == {"ok", "wpa_fail", "dhcp_fail", "verify_fail", "wrong_ssid"}

\* Which command of APService.start fails ("oserror": the hostapd binary
\* cannot be executed, which raises an error other than CalledProcessError).
ApFaults == {"none", "addr", "hostapd", "dnsmasq", "oserror"}

RuleFault == <<"rule1", "rule2", "rule3">>

\* Which step of BridgeService.start fails.
BridgeFaults == {"none", "add", "master", "up", "forward"} \cup {RuleFault[i] : i \in 1..NumRules}

\* The outcomes of the external commands of one start_services call.  The call
\* ends at its first failing step, so one failing command per call gives
\* every outcome.
Nominal == [conn |-> "ok", cfg_ap |-> TRUE, cfg_dhcp |-> TRUE, ap |-> "none", br |-> "none"]

StartInputs ==
    {in \in [conn : ConnOutcomes, cfg_ap : BOOLEAN, cfg_dhcp : BOOLEAN,
             ap : ApFaults, br : BridgeFaults] :
        Cardinality({f \in DOMAIN in : in[f] # Nominal[f]}) <= 1}

\* State after WiFiExtenderDaemon.__init__ on a system with none of the
\* extender's resources allocated.
InitWorld ==
    [ connection_manager |-> FALSE, interface_manager |-> FALSE,
      ap_service |-> FALSE, bridge_service |-> FALSE,
      virtual_interface |-> FALSE, current_connection |-> FALSE,
      ap_is_running |-> FALSE, bridge_is_running |-> FALSE,
      iptables_rules |-> <<>>,
      vif |-> FALSE, wpa |-> FALSE, assoc |-> FALSE, other_ssid |-> FALSE,
      lease |-> FALSE,
      ap_addr |-> FALSE, hostapd |-> FALSE, dnsmasq |-> FALSE,
      hostapd_conf |-> FALSE, dnsmasq_conf |-> FALSE,
      br0 |-> FALSE, master |-> FALSE, br_up |-> FALSE,
      ip_forward |-> FALSE, nat |-> <<>>,
      added |-> <<>>, cmds |-> <<>>, errs |-> <<>>,
      lease_file |-> <<>>, stations |-> {},
      calls |-> <<>>, failed |-> <<>> ]

Ret(ok, x) == [ok |-> ok, raised |-> FALSE, w |-> x]
Raise(x) == [ok |-> FALSE, raised |-> TRUE, w |-> x]
\* (False, str(e)): the failure names the command that failed.
Fail(msg, x) == [ok |-> FALSE, raised |-> FALSE, w |-> x, msg |-> msg]
Log(x, name) == [x EXCEPT !.calls = Append(@, name), !.cmds = <<>>, !.errs = <<>>]

\* The world a collaborator call leaves, with the call recorded among the
\* failed ones when it returned (False, message) or raised.
Note(r, name) == IF r.ok THEN r.w ELSE [r.w EXCEPT !.failed = Append(@, name)]
Noted(r, name) == [r EXCEPT !.w = Note(r, name)]

\* The external command c is run (what a mock of subprocess.run and of the
\* write to /proc would record); the log covers the latest collaborator call
\* made by the owner of the collaborators.
Cmd(x, c) == [x EXCEPT !.cmds = Append(@, c)]

\* The command c is run and exits with a non-zero status (or the write raises).
CmdFailed(x, c) == [x EXCEPT !.cmds = Append(@, c), !.errs = Append(@, c)]

Run(x, c, ok) == IF ok THEN Cmd(x, c) ELSE CmdFailed(x, c)

\* Entry of a collaborator call: the command log starts afresh.
Enter(x) == [x EXCEPT !.cmds = <<>>, !.errs = <<>>]

----------------------------------------------------------------------------
(* core/interface_manager.py *)

\* create_virtual_interface without its check of the held handle.
create_virtual_interface_unguarded(x, cmd_ok) ==
    IF cmd_ok
    THEN Ret(TRUE, [Cmd(x, "iw_add") EXCEPT !.vif = TRUE, !.virtual_interface = TRUE])
    ELSE Ret(FALSE, CmdFailed(x, "iw_add"))

create_virtual_interface(x, cmd_ok) ==
    IF x.virtual_interface THEN Ret(FALSE, x)
    ELSE IF cmd_ok
         THEN Ret(TRUE, [Cmd(x, "iw_add") EXCEPT !.vif = TRUE, !.virtual_interface = TRUE])
         ELSE Ret(FALSE, CmdFailed(x, "iw_add"))

delete_virtual_interface(x) ==
    IF ~x.virtual_interface THEN Ret(FALSE, x)
    ELSE IF x.vif
         THEN Ret(TRUE, [Cmd(x, "iw_del") EXCEPT !.vif = FALSE, !.ap_addr = FALSE,
                                                 !.master = FALSE,
                                                 !.virtual_interface = FALSE])
         ELSE Ret(FALSE, CmdFailed(x, "iw_del"))

----------------------------------------------------------------------------
(* core/connection_manager.py *)

\* WiFiDetector.get_interface_status: connected is an IPv4 address together
\* with an ESSID; ssid is the ESSID the interface reports.
get_connection_status(x) ==
    [connected |-> x.lease /\ x.assoc,
     ssid |-> IF ~x.assoc THEN "none" ELSE IF x.other_ssid THEN "other" ELSE "requested"]

\* The radio's association once wpa_supplicant and dhclient have run.
Associate(x, outcome) ==
    [x EXCEPT !.assoc = outcome \in {"ok", "wrong_ssid"},
              !.other_ssid = outcome = "wrong_ssid"]

\* connect_to_network taking the exit of dhclient for the connection.
connect_to_network_unverified(x, outcome, have_dhclient) ==
    LET k == [x EXCEPT !.wpa = FALSE, !.assoc = FALSE, !.other_ssid = FALSE]
    IN  IF outcome = "wpa_fail" THEN Ret(FALSE, k)
        ELSE LET s == [k EXCEPT !.wpa = TRUE]
             IN  IF ~have_dhclient \/ outcome = "dhcp_fail" THEN Ret(FALSE, s)
                 ELSE Ret(TRUE, [Associate([s EXCEPT !.lease = TRUE], outcome)
                                    EXCEPT !.current_connection = TRUE])

connect_to_network(x, outcome, have_dhclient) ==
    LET k == [x EXCEPT !.wpa = FALSE, !.assoc = FALSE,     \* killall wpa_supplicant
                       !.other_ssid = FALSE]
    IN  IF outcome = "wpa_fail" THEN Ret(FALSE, k)
        ELSE LET s == [k EXCEPT !.wpa = TRUE]
             IN  IF ~have_dhclient \/ outcome = "dhcp_fail" THEN Ret(FALSE, s)
                 ELSE LET d == Associate([s EXCEPT !.lease = TRUE], outcome)
                          status == get_connection_status(d)
                      IN  IF status.connected /\ status.ssid = "requested"
                          THEN Ret(TRUE, [d EXCEPT !.current_connection = TRUE])
                          ELSE Ret(FALSE, d)

disconnect(x, have_dhclient) ==
    IF ~x.wpa THEN Ret(FALSE, x)                           \* killall exits non-zero
    ELSE LET k == [x EXCEPT !.wpa = FALSE, !.assoc = FALSE, !.other_ssid = FALSE]
         IN  IF ~have_dhclient THEN Raise(k)               \* not a CalledProcessError
             ELSE Ret(TRUE, [k EXCEPT !.lease = FALSE, !.current_connection = FALSE])

----------------------------------------------------------------------------
(* core/ap_service.py *)

configure_ap(x, write_ok) ==
    IF write_ok THEN Ret(TRUE, [x EXCEPT !.hostapd_conf = TRUE]) ELSE Ret(FALSE, x)

configure_dhcp(x, write_ok) ==
    IF write_ok THEN Ret(TRUE, [x EXCEPT !.dnsmasq_conf = TRUE]) ELSE Ret(FALSE, x)

\* stop() with its killall commands run under check=True.
ap_stop_checked(x) ==
    IF ~x.hostapd THEN Ret(FALSE, CmdFailed(x, "killall_hostapd"))
    ELSE IF ~x.dnsmasq
         THEN Ret(FALSE, [CmdFailed(Cmd(x, "killall_hostapd"), "killall_dnsmasq")
                             EXCEPT !.hostapd = FALSE])
    ELSE LET k == [Cmd(Cmd(x, "killall_hostapd"), "killall_dnsmasq")
                      EXCEPT !.hostapd = FALSE, !.dnsmasq = FALSE]
         IN  IF ~k.vif THEN Ret(FALSE, CmdFailed(k, "addr_flush"))
             ELSE Ret(TRUE, [Cmd(k, "addr_flush") EXCEPT !.ap_addr = FALSE,
                                                         !.hostapd_conf = FALSE,
                                                         !.dnsmasq_conf = FALSE,
                                                         !.ap_is_running = FALSE])

ap_stop(x) ==
    LET k == [Run(Run(x, "killall_hostapd", x.hostapd), "killall_dnsmasq", x.dnsmasq)
                 EXCEPT !.hostapd = FALSE, !.dnsmasq = FALSE]  \* killall, unchecked
    IN  IF ~k.vif THEN Ret(FALSE, CmdFailed(k, "addr_flush"))  \* ip addr flush fails
        ELSE Ret(TRUE, [Cmd(k, "addr_flush") EXCEPT !.ap_addr = FALSE, !.hostapd_conf = FALSE,
                                                    !.dnsmasq_conf = FALSE,
                                                    !.ap_is_running = FALSE])

\* A hostapd (dnsmasq) launched while one is already serving the interface,
\* or without its configuration file, exits non-zero.
ap_start(x, fault) ==
    LET failed(y) == Ret(FALSE, ap_stop(y).w)                  \* except: self.stop()
    IN  IF ~x.vif THEN failed(CmdFailed(x, "addr_flush"))
        ELSE LET f == [Cmd(x, "addr_flush") EXCEPT !.ap_addr = FALSE]   \* ip addr flush
             IN  IF fault = "addr" THEN failed(CmdFailed(f, "addr_add"))
                 ELSE LET a == [Cmd(f, "addr_add") EXCEPT !.ap_addr = TRUE] \* ip addr add, link up
                      IN  IF fault = "oserror" THEN Raise(CmdFailed(a, "hostapd"))
                          ELSE IF fault = "hostapd" \/ a.hostapd \/ ~a.hostapd_conf
                               THEN failed(CmdFailed(a, "hostapd"))
                          ELSE LET h == [Cmd(a, "hostapd") EXCEPT !.hostapd = TRUE]
                               IN  IF fault = "dnsmasq" \/ h.dnsmasq \/ ~h.dnsmasq_conf
                                   THEN failed(CmdFailed(h, "dnsmasq"))
                                   ELSE Ret(TRUE, [Cmd(h, "dnsmasq") EXCEPT
                                                      !.dnsmasq = TRUE,
                                                      !.ap_is_running = TRUE])

\* for line in f: a client per line of five fields or more, in file order.
\* A key a client dictionary may lack is held as a set: {} when absent.
RECURSIVE ReadLeases(_)
ReadLeases(f) ==
    IF f = <<>> THEN <<>>
    ELSE LET rest == ReadLeases(Tail(f))
         IN  IF Head(f).fields >= 5
             THEN <<[mac_address |-> Head(f).mac, lease |-> {"ip_hostname"},
                     signal_strength |-> {}]>> \o rest
             ELSE rest

\* Each station of the dump gives its signal to the first client of its
\* address, when there is one.
AddSignal(clients, stations) ==
    [i \in DOMAIN clients |->
        IF /\ clients[i].mac_address \in stations
           /\ \A j \in 1..(i - 1) : clients[j].mac_address # clients[i].mac_address
        THEN [clients[i] EXCEPT !.signal_strength = {"dBm"}]
        ELSE clients[i]]

\* The list returned; iw dev <interface> station dump exits non-zero when
\* the interface does not exist.
get_connected_clients(x) ==
    [ok |-> TRUE, raised |-> FALSE, w |-> x,
     clients |-> IF x.vif THEN AddSignal(ReadLeases(x.lease_file), x.stations)
                 ELSE ReadLeases(x.lease_file)]

----------------------------------------------------------------------------
(* core/bridge_service.py *)

\* iptables -D: delete the first entry of the chain that matches the rule.
RECURSIVE DeleteRule(_, _)
DeleteRule(chain, r) ==
    IF chain = <<>> THEN <<>>
    ELSE IF Head(chain) = r THEN Tail(chain)
    ELSE <<Head(chain)>> \o DeleteRule(Tail(chain), r)

\* iptables ... -A / -D for the rules of setup_routing, by position.
RuleAdd == <<"A1", "A2", "A3">>
RuleDel == <<"D1", "D2", "D3">>

RECURSIVE RemoveRules_until_failure(_, _)
RECURSIVE RemoveRules(_, _)

\* The removal loop ending at the first iptables -D that fails.
RemoveRules_until_failure(x, rules) ==
    IF rules = <<>> THEN x
    ELSE LET r == rules[Len(rules)]
             d == Run(x, RuleDel[r], DeleteRule(x.nat, r) # x.nat)
         IN  IF DeleteRule(x.nat, r) = x.nat THEN d
             ELSE RemoveRules_until_failure([d EXCEPT !.nat = DeleteRule(@, r)],
                                            SubSeq(rules, 1, Len(rules) - 1))

\* for rule in reversed(self._iptables_rules): iptables -D rule (its exit
\* status is not looked at)
RemoveRules(x, rules) ==
    IF rules = <<>> THEN x
    ELSE LET r == rules[Len(rules)]
         IN  RemoveRules([Run(x, RuleDel[r], DeleteRule(x.nat, r) # x.nat)
                             EXCEPT !.nat = DeleteRule(@, r)],
                         SubSeq(rules, 1, Len(rules) - 1))

cleanup_bridge(x) ==
    [Run(Run(x, "nomaster", x.master), "delete", x.br0)
        EXCEPT !.master = FALSE, !.br0 = FALSE, !.br_up = FALSE]

setup_bridge(x, fault) ==
    IF x.br0 \/ fault = "add" THEN Fail("add", CmdFailed(x, "add"))       \* ip link add
    ELSE LET b == [Cmd(x, "add") EXCEPT !.br0 = TRUE]
         IN  IF ~b.vif \/ fault = "master"                                 \* ip link set master
             THEN Fail("master", CmdFailed(b, "master"))
             ELSE LET m == [Cmd(b, "master") EXCEPT !.master = TRUE]
                  IN  IF fault = "up" THEN Fail("up", CmdFailed(m, "up"))  \* ip link set up
                      ELSE Ret(TRUE, [Cmd(m, "up") EXCEPT !.br_up = TRUE])

RECURSIVE InstallRules_record_first(_, _, _)
RECURSIVE InstallRules_push_front(_, _, _)
RECURSIVE InstallRules(_, _, _)

\* The rule loop with each rule put on the list before its command is run.
InstallRules_record_first(x, i, fault) ==
    IF i > NumRules THEN Ret(TRUE, x)
    ELSE LET a == [Cmd(x, RuleAdd[i]) EXCEPT !.iptables_rules = Append(@, i)]
         IN  IF RuleFault[i] = fault
             THEN Fail(fault, [CmdFailed(x, RuleAdd[i])
                                  EXCEPT !.iptables_rules = Append(@, i)])
             ELSE InstallRules_record_first([a EXCEPT !.nat = Append(@, i),
                                                      !.added = Append(@, i)],
                                            i + 1, fault)

\* The rule loop with each installed rule put at the front of the list.
InstallRules_push_front(x, i, fault) ==
    IF i > NumRules THEN Ret(TRUE, x)
    ELSE LET a == Cmd(x, RuleAdd[i])
         IN  IF RuleFault[i] = fault THEN Fail(fault, CmdFailed(x, RuleAdd[i]))
             ELSE InstallRules_push_front([a EXCEPT !.nat = Append(@, i),
                                                    !.added = Append(@, i),
                                                    !.iptables_rules = <<i>> \o @],
                                          i + 1, fault)

\* for rule in rules: subprocess.run(rule, check=True);
\*                    self._iptables_rules.append(rule)
\* from rule i on.  added is the order in which the rules went into the kernel.
InstallRules(x, i, fault) ==
    IF i > NumRules THEN Ret(TRUE, x)
    ELSE LET a == Cmd(x, RuleAdd[i])
         IN  IF RuleFault[i] = fault THEN Fail(fault, CmdFailed(x, RuleAdd[i]))
             ELSE InstallRules([a EXCEPT !.nat = Append(@, i),
                                         !.added = Append(@, i),
                                         !.iptables_rules = Append(@, i)],
                               i + 1, fault)

setup_routing(x, fault) ==
    IF fault = "forward" THEN Fail("forward", CmdFailed(x, "forward_on"))  \* open() raises
    ELSE InstallRules([Cmd(x, "forward_on") EXCEPT !.ip_forward = TRUE], 1, fault)

\* start() with the routing set up before the bridge.
bridge_start_routing_first(x, fault) ==
    LET r == setup_routing(Enter(x), fault)
    IN  IF ~r.ok THEN Fail(r.msg, cleanup_bridge(r.w))
        ELSE LET b == setup_bridge(r.w, fault)
             IN  IF ~b.ok THEN Fail(b.msg, b.w)
                 ELSE Ret(TRUE, [b.w EXCEPT !.bridge_is_running = TRUE])

\* start() removing the bridge device also when setup_bridge fails.
bridge_start_cleanup_always(x, fault) ==
    LET b == setup_bridge(Enter(x), fault)
    IN  IF ~b.ok THEN Fail(b.msg, cleanup_bridge(b.w))
        ELSE LET r == setup_routing(b.w, fault)
             IN  IF ~r.ok THEN Fail(r.msg, cleanup_bridge(r.w))
                 ELSE Ret(TRUE, [r.w EXCEPT !.bridge_is_running = TRUE])

bridge_start(x, fault) ==
    LET b == setup_bridge(Enter(x), fault)
    IN  IF ~b.ok THEN Fail(b.msg, b.w)
        ELSE LET r == setup_routing(b.w, fault)
             IN  IF ~r.ok THEN Fail(r.msg, cleanup_bridge(r.w))
                 ELSE Ret(TRUE, [r.w EXCEPT !.bridge_is_running = TRUE])

\* stop() with the bridge device taken down before the rules are removed.
bridge_stop_bridge_first(x) ==
    LET c == cleanup_bridge(Enter(x))
        r == RemoveRules(c, c.iptables_rules)
    IN  Ret(TRUE, [Cmd(r, "forward_off") EXCEPT !.iptables_rules = <<>>, !.added = <<>>,
                                                !.ip_forward = FALSE,
                                                !.bridge_is_running = FALSE])

\* stop() returning at once when the service is not running.
bridge_stop_only_if_running(x) ==
    IF ~x.bridge_is_running THEN Ret(TRUE, Enter(x))
    ELSE LET r == RemoveRules(Enter(x), x.iptables_rules)
             f == [Cmd(r, "forward_off") EXCEPT !.iptables_rules = <<>>, !.added = <<>>,
                                                !.ip_forward = FALSE]
         IN  Ret(TRUE, [cleanup_bridge(f) EXCEPT !.bridge_is_running = FALSE])

bridge_stop(x) ==
    LET r == RemoveRules(Enter(x), x.iptables_rules)
        f == [Cmd(r, "forward_off") EXCEPT !.iptables_rules = <<>>, !.added = <<>>,
                                           !.ip_forward = FALSE]
    IN  Ret(TRUE, [cleanup_bridge(f) EXCEPT !.bridge_is_running = FALSE])

\* Which check of get_bridge_status raises (the read of /proc fails, the
\* iptables or the bridge binary cannot be executed).
ProbeFaults == {"none", "forward", "nat", "bridge"}

\* The POSTROUTING chain holds the MASQUERADE rule of the upstream interface.
NatPresent(x) == \E i \in 1..Len(x.nat) : x.nat[i] = 1

\* The three checks share one try block: the one that raises ends the probe,
\* and the dictionary is returned as filled so far.  bridge_active is a key
\* only once its check has run: the set holds the value under the key.
get_bridge_status(x, fault) ==
    LET s0 == [running |-> x.bridge_is_running, forwarding_enabled |-> FALSE,
               nat_enabled |-> FALSE, bridge_active |-> {}]
        s1 == [s0 EXCEPT !.forwarding_enabled = x.ip_forward]
        s2 == [s1 EXCEPT !.nat_enabled = NatPresent(x)]
        s3 == [s2 EXCEPT !.bridge_active = {x.br0}]
    IN  IF fault = "forward" THEN s0
        ELSE IF fault = "nat" THEN s1
        ELSE IF fault = "bridge" THEN s2
        ELSE s3

----------------------------------------------------------------------------
(* service/daemon.py *)

\* A daemon method's outcome: its return value, the error message it logged
\* and the world it leaves.
Out(ok, msg, x) == [ok |-> ok, msg |-> msg, w |-> x]

initialize_services(x, has_iface, create_ok) ==
    IF ~has_iface THEN Out(FALSE, "no_interface", x)
    ELSE LET o == [x EXCEPT !.connection_manager = TRUE, !.current_connection = FALSE,
                            !.interface_manager = TRUE, !.virtual_interface = FALSE]
             c == Noted(create_virtual_interface(Log(o, "create_virtual_interface"), create_ok),
                       "create_virtual_interface")
         IN  IF ~c.ok THEN Out(FALSE, "create_virtual_interface", c.w)
             ELSE Out(TRUE, "", [c.w EXCEPT !.ap_service = TRUE, !.ap_is_running = FALSE,
                                            !.bridge_service = TRUE,
                                            !.bridge_is_running = FALSE,
                                            !.iptables_rules = <<>>])

\* if "ap" in self.config: configure_ap, configure_dhcp, start
StartAP(x, in) ==
    LET c == Noted(configure_ap(Log(x, "configure_ap"), in.cfg_ap), "configure_ap")
    IN  IF ~c.ok THEN Out(FALSE, "configure_ap", c.w)
        ELSE LET d == Noted(configure_dhcp(Log(c.w, "configure_dhcp"), in.cfg_dhcp),
                                "configure_dhcp")
             IN  IF ~d.ok THEN Out(FALSE, "configure_dhcp", d.w)
                 ELSE LET s == Noted(ap_start(Log(d.w, "ap_start"), in.ap), "ap_start")
                      IN  IF s.raised THEN Out(FALSE, "exception", s.w)
                          ELSE IF ~s.ok THEN Out(FALSE, "ap_start", s.w)
                          ELSE Out(TRUE, "", s.w)

\* bridge_service.start(), and ap_service.stop() when it fails
StartBridge(x, in) ==
    LET b == Noted(bridge_start(Log(x, "bridge_start"), in.br), "bridge_start")
    IN  IF ~b.ok THEN Out(FALSE, b.msg, Note(ap_stop(Log(b.w, "ap_stop")), "ap_stop"))
        ELSE Out(TRUE, "", b.w)

\* start_services with the AP brought up before the upstream is joined.
start_services_ap_first(x, cfg, in, have_dhclient) ==
    IF ~(x.connection_manager /\ x.ap_service /\ x.bridge_service)
    THEN Out(FALSE, "not_initialized", x)
    ELSE LET a == IF "ap" \in cfg THEN StartAP(x, in) ELSE Out(TRUE, "", x)
         IN  IF ~a.ok THEN a
             ELSE LET c == IF "upstream" \in cfg
                           THEN Noted(connect_to_network(Log(a.w, "connect_to_network"),
                                                         in.conn, have_dhclient),
                                      "connect_to_network")
                           ELSE Ret(TRUE, a.w)
                  IN  IF ~c.ok THEN Out(FALSE, "connect_to_network", c.w)
                      ELSE StartBridge(c.w, in)

\* start_services going on to the AP after a failed upstream connect.
start_services_keep_going(x, cfg, in, have_dhclient) ==
    IF ~(x.connection_manager /\ x.ap_service /\ x.bridge_service)
    THEN Out(FALSE, "not_initialized", x)
    ELSE LET c == IF "upstream" \in cfg
                  THEN Noted(connect_to_network(Log(x, "connect_to_network"), in.conn,
                                                have_dhclient),
                             "connect_to_network")
                  ELSE Ret(TRUE, x)
             a == IF "ap" \in cfg THEN StartAP(c.w, in) ELSE Out(TRUE, "", c.w)
         IN  IF ~a.ok THEN a
             ELSE LET b == StartBridge(a.w, in)
                  IN  IF ~c.ok THEN Out(FALSE, "connect_to_network", b.w) ELSE b

start_services(x, cfg, in, have_dhclient) ==
    IF ~(x.connection_manager /\ x.ap_service /\ x.bridge_service)
    THEN Out(FALSE, "not_initialized", x)
    ELSE LET c == IF "upstream" \in cfg
                  THEN Noted(connect_to_network(Log(x, "connect_to_network"), in.conn,
                                                have_dhclient),
                             "connect_to_network")
                  ELSE Ret(TRUE, x)
         IN  IF ~c.ok THEN Out(FALSE, "connect_to_network", c.w)
             ELSE LET a == IF "ap" \in cfg THEN StartAP(c.w, in) ELSE Out(TRUE, "", c.w)
                  IN  IF ~a.ok THEN a ELSE StartBridge(a.w, in)

\* stop_services with the AP stopped before the bridge.
stop_services_ap_first(x, have_dhclient) ==
    LET a == IF x.ap_service THEN Note(ap_stop(Log(x, "ap_stop")), "ap_stop") ELSE x
        b == IF a.bridge_service THEN Note(bridge_stop(Log(a, "bridge_stop")), "bridge_stop") ELSE a
        d == IF b.connection_manager
             THEN Noted(disconnect(Log(b, "disconnect"), have_dhclient), "disconnect")
             ELSE Ret(TRUE, b)
    IN  IF d.raised THEN d.w
        ELSE IF d.w.interface_manager
             THEN Note(delete_virtual_interface(Log(d.w, "delete_virtual_interface")),
                       "delete_virtual_interface")
             ELSE d.w

\* The world stop_services leaves; an error escaping a collaborator ends it.
stop_services(x, have_dhclient) ==
    LET b == IF x.bridge_service THEN Note(bridge_stop(Log(x, "bridge_stop")), "bridge_stop") ELSE x
        a == IF b.ap_service THEN Note(ap_stop(Log(b, "ap_stop")), "ap_stop") ELSE b
        d == IF a.connection_manager
             THEN Noted(disconnect(Log(a, "disconnect"), have_dhclient), "disconnect")
             ELSE Ret(TRUE, a)
    IN  IF d.raised THEN d.w
        ELSE IF d.w.interface_manager
             THEN Note(delete_virtual_interface(Log(d.w, "delete_virtual_interface")),
                       "delete_virtual_interface")
             ELSE d.w

----------------------------------------------------------------------------
(* WiFiExtenderDaemon.run, step by step *)

Init ==
    /\ pc = "idle"
    /\ running = FALSE
    /\ config = {}
    /\ dhclient \in BOOLEAN
    /\ w = InitWorld
    /\ result = "none"
    /\ stopAt = 0
    /\ ticks = 0
    /\ recoveryFails = 0
    /\ pending = 0
    /\ stops = 0
    /\ ret = [op |-> "none"]

\* self.running = True; self.load_config()
RunBegin ==
    /\ pc = "idle"
    /\ pc' = "init"
    /\ running' = TRUE
    /\ config' \in SUBSET ConfigKeys
    /\ UNCHANGED <<dhclient, w, result, stopAt, ticks, recoveryFails, pending, stops, ret>>

\* run() with the failed initialize_services returning past the finally clause.
Initialize_bare_return ==
    /\ pc = "init"
    /\ \E has_iface \in BOOLEAN, create_ok \in BOOLEAN :
          LET r == initialize_services(w, has_iface, create_ok)
          IN  /\ w' = r.w
              /\ pc' = IF r.ok THEN "start" ELSE "done"
              /\ result' = IF r.ok THEN "initialized" ELSE r.msg
    /\ UNCHANGED <<running, config, dhclient, stopAt, ticks, recoveryFails, pending, stops, ret>>

\* if not self.initialize_services(): return
Initialize ==
    /\ pc = "init"
    /\ \E has_iface \in BOOLEAN, create_ok \in BOOLEAN :
          LET r == initialize_services(w, has_iface, create_ok)
          IN  /\ w' = r.w
              /\ pc' = IF r.ok THEN "start" ELSE "stop"
              /\ result' = IF r.ok THEN "initialized" ELSE r.msg
    /\ UNCHANGED <<running, config, dhclient, stopAt, ticks, recoveryFails, pending, stops, ret>>

\* if not self.start_services(): return
Start ==
    /\ pc = "start"
    /\ \E in \in StartInputs :
          LET r == start_services(w, config, in, dhclient)
          IN  /\ w' = r.w
              /\ pc' = IF r.ok THEN "loop" ELSE "stop"
              /\ result' = IF r.ok THEN "started" ELSE r.msg
    /\ UNCHANGED <<running, config, dhclient, stopAt, ticks, recoveryFails, pending, stops, ret>>

\* The clients poll and the sleep that end an iteration of the loop.
MonitorAP(x) ==
    IF x.ap_service THEN get_connected_clients(Log(x, "get_connected_clients")).w ELSE x

\* An iteration of the loop entered while the start_services call of an
\* earlier iteration has not returned.
Tick_reentrant ==
    /\ pc \in {"loop", "recover"}
    /\ running
    /\ ticks < MaxTicks
    /\ \E raises \in BOOLEAN :
          LET q == Log([w EXCEPT !.calls = <<>>, !.failed = <<>>], "get_connection_status")
              lost == ~get_connection_status(q).connected
          IN  /\ ret' = [op |-> "get_connection_status", raised |-> raises]
              /\ IF raises
                 THEN /\ w' = q
                      /\ pc' = "loop"
                      /\ UNCHANGED <<pending, recoveryFails>>
                 ELSE /\ w' = IF lost THEN q ELSE MonitorAP(q)
                      /\ pc' = IF lost THEN "recover" ELSE "loop"
                      /\ pending' = IF lost THEN pending + 1 ELSE pending
                      /\ recoveryFails' = IF lost THEN recoveryFails ELSE 0
    /\ ticks' = ticks + 1
    /\ UNCHANGED <<running, config, dhclient, result, stopAt, stops>>

\* The loop without its inner try: an error raised by the status read
\* leaves the loop for the finally clause.
Tick_probe_fatal ==
    /\ pc = "loop"
    /\ running
    /\ ticks < MaxTicks
    /\ \E raises \in BOOLEAN :
          LET q == Log([w EXCEPT !.calls = <<>>, !.failed = <<>>], "get_connection_status")
              lost == ~get_connection_status(q).connected
          IN  /\ ret' = [op |-> "get_connection_status", raised |-> raises]
              /\ IF raises
                 THEN /\ w' = q
                      /\ pc' = "stop"
                      /\ UNCHANGED <<pending, recoveryFails>>
                 ELSE /\ w' = IF lost THEN q ELSE MonitorAP(q)
                      /\ pc' = IF lost THEN "recover" ELSE "loop"
                      /\ pending' = IF lost THEN pending + 1 ELSE pending
                      /\ recoveryFails' = IF lost THEN recoveryFails ELSE 0
    /\ ticks' = ticks + 1
    /\ UNCHANGED <<running, config, dhclient, result, stopAt, stops>>

\* An iteration of while self.running, up to the call of start_services
\* when the upstream is not connected; the call log starts afresh.  The
\* status read may raise (the interface is gone, or unknown to the
\* detector); except Exception then ends the iteration.
Tick ==
    /\ pc = "loop"
    /\ running
    /\ ticks < MaxTicks
    /\ \E raises \in BOOLEAN :
          LET q == Log([w EXCEPT !.calls = <<>>, !.failed = <<>>], "get_connection_status")
              lost == ~get_connection_status(q).connected
          IN  /\ ret' = [op |-> "get_connection_status", raised |-> raises]
              /\ IF raises
                 THEN /\ w' = q
                      /\ pc' = "loop"
                      /\ UNCHANGED <<pending, recoveryFails>>
                 ELSE /\ w' = IF lost THEN q ELSE MonitorAP(q)
                      /\ pc' = IF lost THEN "recover" ELSE "loop"
                      /\ pending' = IF lost THEN pending + 1 ELSE pending
                      /\ recoveryFails' = IF lost THEN recoveryFails ELSE 0
    /\ ticks' = ticks + 1
    /\ UNCHANGED <<running, config, dhclient, result, stopAt, stops>>

\* self.start_services() called by the loop returns (its result is dropped)
\* and the iteration goes on to its end.
Recover ==
    /\ pc = "recover"
    /\ \E in \in StartInputs :
          LET r == start_services(w, config, in, dhclient)
          IN  /\ w' = MonitorAP(r.w)
              /\ recoveryFails' = IF r.ok THEN 0 ELSE recoveryFails + 1
    /\ pending' = pending - 1
    /\ pc' = "loop"
    /\ UNCHANGED <<running, config, dhclient, result, stopAt, ticks, stops, ret>>

\* run() returning from the loop without its finally clause.
LoopExit_no_finally ==
    /\ pc = "loop"
    /\ ~running
    /\ pc' = "done"
    /\ UNCHANGED <<running, config, dhclient, w, result, stopAt, ticks, recoveryFails, pending, stops, ret>>

\* while self.running: ... is left; finally:
LoopExit ==
    /\ pc = "loop"
    /\ ~running
    /\ pc' = "stop"
    /\ UNCHANGED <<running, config, dhclient, w, result, stopAt, ticks, recoveryFails, pending, stops, ret>>

\* finally: self.stop_services()
StopServices ==
    /\ pc = "stop"
    /\ stopAt' = Len(w.calls)
    /\ w' = stop_services(w, dhclient)
    /\ stops' = stops + 1
    /\ pc' = "done"
    /\ UNCHANGED <<running, config, dhclient, result, ticks, recoveryFails, pending, ret>>

\* The signal's default disposition: the process ends where it is.
handle_signal_abrupt ==
    /\ pc \notin {"idle", "done"}
    /\ running' = FALSE
    /\ pc' = "done"
    /\ UNCHANGED <<config, dhclient, w, result, stopAt, ticks, recoveryFails, pending, stops, ret>>

\* A handler that runs the teardown itself, inside whatever run() is doing.
handle_signal_stops ==
    /\ pc \notin {"idle", "done"}
    /\ running' = FALSE
    /\ stopAt' = Len(w.calls)
    /\ w' = stop_services(w, dhclient)
    /\ stops' = stops + 1
    /\ UNCHANGED <<pc, config, dhclient, result, ticks, recoveryFails, pending, ret>>

\* SIGTERM / SIGINT while run() executes
handle_signal ==
    /\ pc \notin {"idle", "done"}
    /\ running' = FALSE
    /\ UNCHANGED <<pc, config, dhclient, w, result, stopAt, ticks, recoveryFails, pending, stops, ret>>

\* The radio link to the upstream network drops.
LinkDrop ==
    /\ pc = "loop"
    /\ w.assoc
    /\ w' = [w EXCEPT !.assoc = FALSE]
    /\ UNCHANGED <<pc, running, config, dhclient, result, stopAt, ticks, recoveryFails, pending, stops, ret>>

\* A running wpa_supplicant re-associates on its own.
LinkRestore ==
    /\ pc = "loop"
    /\ w.wpa /\ ~w.assoc
    /\ w' = [w EXCEPT !.assoc = TRUE]
    /\ UNCHANGED <<pc, running, config, dhclient, result, stopAt, ticks, recoveryFails, pending, stops, ret>>

\* The hostapd process exits on its own (crash, driver reset).
HostapdExit ==
    /\ pc = "loop"
    /\ w.hostapd
    /\ w' = [w EXCEPT !.hostapd = FALSE]
    /\ UNCHANGED <<pc, running, config, dhclient, result, stopAt, ticks, recoveryFails,
                   pending, stops, ret>>

Next ==
    \/ RunBegin
    \/ Initialize
    \/ Start
    \/ Tick
    \/ Recover
    \/ LoopExit
    \/ StopServices
    \/ handle_signal
    \/ LinkDrop
    \/ LinkRestore
    \/ HostapdExit

Spec == Init /\ [][Next]_vars

\* run() moves on from the statement it is at (initialize_services,
\* start_services, the start_services call of the loop, the loop once
\* 'running' is cleared, stop_services) to the next one: the thread keeps
\* executing, and every collaborator call and sleep returns.
Proceed ==
    /\ pc \in {"init", "start", "recover", "stop"} \/ (pc = "loop" /\ ~running)
    /\ pc' \in {"start", "loop", "stop", "done"}
    /\ pc' # pc

FairSpec == Spec /\ WF_pc(Proceed)

----------------------------------------------------------------------------
(* A BridgeService on its own, started and stopped by its owner in any    *)
(* order (the daemon above, or the start / stop buttons of the GUI).      *)

\* BridgeService(upstream_interface, ap_interface) on a system where the AP
\* interface exists.
BridgeInit ==
    /\ pc = "bridge"
    /\ running = FALSE
    /\ config = {}
    /\ dhclient = TRUE
    /\ w = [InitWorld EXCEPT !.bridge_service = TRUE, !.vif = TRUE]
    /\ result = "none"
    /\ stopAt = 0
    /\ ticks = 0
    /\ recoveryFails = 0
    /\ pending = 0
    /\ stops = 0
    /\ ret = [op |-> "none"]

\* bridge_service.start()
BridgeStart ==
    /\ pc = "bridge"
    /\ Len(w.iptables_rules) + NumRules <= MaxStack
    /\ \E fault \in BridgeFaults :
          LET r == bridge_start(w, fault)
          IN  /\ w' = r.w
              /\ result' = IF r.ok THEN "started" ELSE r.msg
    /\ UNCHANGED <<pc, running, config, dhclient, stopAt, ticks, recoveryFails, pending, stops, ret>>

\* bridge_service.stop()
BridgeStop ==
    /\ pc = "bridge"
    /\ w' = bridge_stop(w).w
    /\ result' = "stopped"
    /\ UNCHANGED <<pc, running, config, dhclient, stopAt, ticks, recoveryFails, pending, stops, ret>>

\* Another program empties the kernel's chains (iptables -F, a firewall reload).
RulesFlushed ==
    /\ pc = "bridge"
    /\ w.nat # <<>>
    /\ w' = [w EXCEPT !.nat = <<>>]
    /\ UNCHANGED <<pc, running, config, dhclient, result, stopAt, ticks, recoveryFails,
                   pending, stops, ret>>

\* bridge_service.get_bridge_status()
BridgeStatus ==
    /\ pc = "bridge"
    /\ \E fault \in ProbeFaults :
          ret' = [op |-> "get_bridge_status", fault |-> fault,
                  status |-> get_bridge_status(w, fault)]
    /\ UNCHANGED <<pc, running, config, dhclient, w, result, stopAt, ticks, recoveryFails,
                   pending, stops>>

BridgeNext == BridgeStart \/ BridgeStop \/ RulesFlushed \/ BridgeStatus

BridgeSpec == BridgeInit /\ [][BridgeNext]_vars

----------------------------------------------------------------------------
(* The interface manager, the connection manager and the AP service driven *)
(* call by call by their owner (the buttons of the GUI), in any order.     *)
(* The AP service is constructed for the virtual interface once it has     *)
(* been created, and its owners call it only while that interface exists   *)
(* (stop_services deletes the interface after the AP stop; the GUI never   *)
(* deletes it).                                                            *)

\* ConnectionManager(interface) and InterfaceManager(interface) on a system
\* with none of the extender's resources allocated.
PartsInit ==
    /\ pc = "parts"
    /\ running = FALSE
    /\ config = {}
    /\ dhclient = TRUE
    /\ w = [InitWorld EXCEPT !.interface_manager = TRUE, !.connection_manager = TRUE]
    /\ result = "none"
    /\ stopAt = 0
    /\ ticks = 0
    /\ recoveryFails = 0
    /\ pending = 0
    /\ stops = 0
    /\ ret = [op |-> "none"]

\* interface_manager.create_virtual_interface(); APService(virtual_interface)
CreateVif ==
    /\ pc = "parts"
    /\ \E cmd_ok \in BOOLEAN :
          LET r == create_virtual_interface(Enter(w), cmd_ok)
          IN  /\ w' = [r.w EXCEPT !.ap_service = @ \/ r.ok]
              /\ ret' = [op |-> "create_virtual_interface", ok |-> r.ok, raised |-> r.raised]
    /\ UNCHANGED <<pc, running, config, dhclient, result, stopAt, ticks, recoveryFails,
                   pending, stops>>

\* interface_manager.delete_virtual_interface()
DeleteVif ==
    /\ pc = "parts"
    /\ LET r == delete_virtual_interface(Enter(w))
       IN  /\ w' = r.w
           /\ ret' = [op |-> "delete_virtual_interface", ok |-> r.ok, raised |-> r.raised]
    /\ UNCHANGED <<pc, running, config, dhclient, result, stopAt, ticks, recoveryFails,
                   pending, stops>>

\* ap_service.configure_ap(...)
APConfigure ==
    /\ pc = "parts"
    /\ w.ap_service /\ w.vif
    /\ \E write_ok \in BOOLEAN :
          LET r == configure_ap(Enter(w), write_ok)
          IN  /\ w' = r.w
              /\ ret' = [op |-> "configure_ap", ok |-> r.ok, raised |-> r.raised]
    /\ UNCHANGED <<pc, running, config, dhclient, result, stopAt, ticks, recoveryFails,
                   pending, stops>>

\* ap_service.configure_dhcp()
APConfigureDhcp ==
    /\ pc = "parts"
    /\ w.ap_service /\ w.vif
    /\ \E write_ok \in BOOLEAN :
          LET r == configure_dhcp(Enter(w), write_ok)
          IN  /\ w' = r.w
              /\ ret' = [op |-> "configure_dhcp", ok |-> r.ok, raised |-> r.raised]
    /\ UNCHANGED <<pc, running, config, dhclient, result, stopAt, ticks, recoveryFails,
                   pending, stops>>

\* ap_service.start()
APStart ==
    /\ pc = "parts"
    /\ w.ap_service /\ w.vif
    /\ \E fault \in ApFaults :
          LET r == ap_start(Enter(w), fault)
          IN  /\ w' = r.w
              /\ ret' = [op |-> "ap_start", ok |-> r.ok, raised |-> r.raised]
    /\ UNCHANGED <<pc, running, config, dhclient, result, stopAt, ticks, recoveryFails,
                   pending, stops>>

\* ap_service.stop()
APStop ==
    /\ pc = "parts"
    /\ w.ap_service /\ w.vif
    /\ LET r == ap_stop(Enter(w))
       IN  /\ w' = r.w
           /\ ret' = [op |-> "ap_stop", ok |-> r.ok, raised |-> r.raised]
    /\ UNCHANGED <<pc, running, config, dhclient, result, stopAt, ticks, recoveryFails,
                   pending, stops>>

\* connection_manager.connect_to_network(ssid, password)
Connect ==
    /\ pc = "parts"
    /\ \E outcome \in ConnOutcomes :
          LET r == connect_to_network(Enter(w), outcome, dhclient)
          IN  /\ w' = r.w
              /\ ret' = [op |-> "connect_to_network", ok |-> r.ok, raised |-> r.raised]
    /\ UNCHANGED <<pc, running, config, dhclient, result, stopAt, ticks, recoveryFails,
                   pending, stops>>

\* connection_manager.disconnect()
Disconnect ==
    /\ pc = "parts"
    /\ LET r == disconnect(Enter(w), dhclient)
       IN  /\ w' = r.w
           /\ ret' = [op |-> "disconnect", ok |-> r.ok, raised |-> r.raised]
    /\ UNCHANGED <<pc, running, config, dhclient, result, stopAt, ticks, recoveryFails,
                   pending, stops>>

PartsNext ==
    \/ CreateVif \/ DeleteVif
    \/ APConfigure \/ APConfigureDhcp \/ APStart \/ APStop
    \/ Connect \/ Disconnect

PartsSpec == PartsInit /\ [][PartsNext]_vars

----------------------------------------------------------------------------
(* The clients of a running access point, and APService.get_connected_clients *)

ClientsInit ==
    /\ pc = "clients"
    /\ running = FALSE
    /\ config = {}
    /\ dhclient = TRUE
    /\ w = [InitWorld EXCEPT !.interface_manager = TRUE, !.virtual_interface = TRUE,
                             !.vif = TRUE, !.ap_service = TRUE, !.ap_is_running = TRUE,
                             !.hostapd_conf = TRUE, !.dnsmasq_conf = TRUE,
                             !.ap_addr = TRUE, !.hostapd = TRUE, !.dnsmasq = TRUE]
    /\ result = "none"
    /\ stopAt = 0
    /\ ticks = 0
    /\ recoveryFails = 0
    /\ pending = 0
    /\ stops = 0
    /\ ret = [op |-> "none"]

HasLease(x, m) == \E i \in 1..Len(x.lease_file) : x.lease_file[i].mac = m

\* A device associates with the access point.
StationJoins ==
    /\ pc = "clients"
    /\ \E m \in MACs \ w.stations : w' = [w EXCEPT !.stations = @ \cup {m}]
    /\ ret' = [op |-> "none"]
    /\ UNCHANGED <<pc, running, config, dhclient, result, stopAt, ticks, recoveryFails,
                   pending, stops>>

\* A device leaves the access point.
StationLeaves ==
    /\ pc = "clients"
    /\ \E m \in w.stations : w' = [w EXCEPT !.stations = @ \ {m}]
    /\ ret' = [op |-> "none"]
    /\ UNCHANGED <<pc, running, config, dhclient, result, stopAt, ticks, recoveryFails,
                   pending, stops>>

\* dnsmasq appends the lease of a device to its lease file; a reader may
\* find the last line still short of its five fields.
LeaseGranted ==
    /\ pc = "clients"
    /\ Len(w.lease_file) < MaxLeases
    /\ \E m \in MACs, n \in {4, 5} :
          /\ ~HasLease(w, m)
          /\ w' = [w EXCEPT !.lease_file = Append(@, [mac |-> m, fields |-> n])]
    /\ ret' = [op |-> "none"]
    /\ UNCHANGED <<pc, running, config, dhclient, result, stopAt, ticks, recoveryFails,
                   pending, stops>>

\* The oldest lease expires.
LeaseExpires ==
    /\ pc = "clients"
    /\ w.lease_file # <<>>
    /\ w' = [w EXCEPT !.lease_file = Tail(@)]
    /\ ret' = [op |-> "none"]
    /\ UNCHANGED <<pc, running, config, dhclient, result, stopAt, ticks, recoveryFails,
                   pending, stops>>

\* clients = ap_service.get_connected_clients()
GetClients ==
    /\ pc = "clients"
    /\ LET r == get_connected_clients(Enter(w))
       IN  /\ w' = r.w
           /\ ret' = [op |-> "get_connected_clients", clients |-> r.clients]
    /\ UNCHANGED <<pc, running, config, dhclient, result, stopAt, ticks, recoveryFails,
                   pending, stops>>

ClientsNext ==
    \/ StationJoins \/ StationLeaves \/ LeaseGranted \/ LeaseExpires \/ GetClients

ClientsSpec == ClientsInit /\ [][ClientsNext]_vars

----------------------------------------------------------------------------
(* What the claims observe *)

\* The calls stop_services issued (the log from where it was entered).
StopCalls == IF pc = "done" THEN SubSeq(w.calls, stopAt + 1, Len(w.calls)) ELSE <<>>

Count(calls, name) == Len(SelectSeq(calls, LAMBDA c : c = name))

BringUpNames == {"connect_to_network", "configure_ap", "configure_dhcp", "ap_start",
                 "bridge_start"}

TeardownNames == {"bridge_stop", "ap_stop", "disconnect", "delete_virtual_interface"}

Teardowns(calls) == SelectSeq(calls, LAMBDA c : c \in TeardownNames)

\* A resource of one of the four layers is still allocated.
Allocated(x) ==
    \/ x.vif
    \/ x.wpa \/ x.lease
    \/ x.hostapd \/ x.dnsmasq
    \/ x.br0 \/ x.ip_forward \/ x.nat # <<>>

BridgeFailures == BridgeFaults \ {"none"}

APFailures == {"configure_ap", "configure_dhcp", "ap_start", "exception"}

\* run() has passed through a bring-up that failed at one of the steps 1..4.
FailedStart ==
    result \in {"create_virtual_interface", "connect_to_network"} \cup APFailures
               \cup BridgeFailures

\* The undo operations of the steps completed before the failing one, last first.
Undo(res, cfg) ==
    LET vifUndo == <<"delete_virtual_interface">>
        upUndo == IF "upstream" \in cfg THEN <<"disconnect">> ELSE <<>>
        apUndo == IF "ap" \in cfg THEN <<"ap_stop">> ELSE <<>>
    IN  IF res = "create_virtual_interface" THEN <<>>
        ELSE IF res = "connect_to_network" THEN vifUndo
        ELSE IF res \in APFailures THEN upUndo \o vifUndo
        ELSE apUndo \o upUndo \o vifUndo

----------------------------------------------------------------------------
(* Claims *)

\* C1: after a bring-up that failed at step k, once run() has returned, no
\* resource of the steps before k is still allocated: no virtual interface,
\* upstream association, AP/DHCP process, bridge device, enabled forwarding
\* or installed firewall rule.
C1_RollbackComplete == (pc = "done" /\ FailedStart) => ~Allocated(w)

\* C2: when the bridge start fails while installing a NAT rule, run() ends
\* stopped with AP stop, upstream disconnect and virtual-interface delete each
\* invoked exactly once over the whole failed start.
C2_NatFailureUndoOnce ==
    (pc = "done" /\ result \in {RuleFault[i] : i \in 1..NumRules}) =>
        /\ Count(w.calls, "ap_stop") = 1
        /\ Count(w.calls, "disconnect") = 1
        /\ Count(w.calls, "delete_virtual_interface") = 1

\* C3: after a bring-up that failed at step k, the teardown operations issued
\* are exactly the undo operations of the completed steps k-1..1, in reverse
\* order of bring-up, and none for a layer that was never brought up.
C3_UndoOnlyCompletedSteps ==
    (pc = "done" /\ FailedStart) => Teardowns(w.calls) = Undo(result, config)


\* Every collaborator succeeds.
AllOk == [conn |-> "ok", cfg_ap |-> TRUE, cfg_dhcp |-> TRUE, ap |-> "none", br |-> "none"]

BringUpOrder ==
    <<"create_virtual_interface", "connect_to_network", "configure_ap", "configure_dhcp",
      "ap_start", "bridge_start">>

\* C4: with an upstream and an ap section and every collaborator succeeding,
\* bring-up calls create virtual interface, connect upstream, configure AP,
\* configure DHCP, start AP, start bridge, in this order and once each, and
\* start_services reports success (run() enters its loop).
C4_BringUpOrder ==
    /\ (pc = "start" /\ config = ConfigKeys /\ dhclient) =>
          LET r == start_services(w, config, AllOk, dhclient)
          IN  r.ok /\ r.w.calls = BringUpOrder
    /\ (pc = "loop" /\ ticks = 0 /\ config = ConfigKeys) =>
          result = "started" /\ w.calls = BringUpOrder

C4_Witness ==
    /\ pc = "loop" /\ ticks = 0 /\ config = ConfigKeys
    /\ w.calls = BringUpOrder
    /\ w.ap_is_running /\ w.bridge_is_running /\ w.current_connection

\* The teardown calls of the collaborators that were constructed, in the
\* order of stop_services.
ExpectedStop(x) ==
    (IF x.bridge_service THEN <<"bridge_stop">> ELSE <<>>)
    \o (IF x.ap_service THEN <<"ap_stop">> ELSE <<>>)
    \o (IF x.connection_manager THEN <<"disconnect">> ELSE <<>>)
    \o (IF x.interface_manager THEN <<"delete_virtual_interface">> ELSE <<>>)

IsPrefix(a, b) == Len(a) <= Len(b) /\ a = SubSeq(b, 1, Len(a))

\* C5 (as stated): every stop issues bridge stop, AP stop, upstream disconnect
\* and virtual-interface delete, in this order, once each.
C5_StopOrderAsStated ==
    pc = "done" =>
        StopCalls = <<"bridge_stop", "ap_stop", "disconnect", "delete_virtual_interface">>

\* C5 (amended): stop_services issues its teardown calls in the order bridge
\* stop, AP stop, upstream disconnect, virtual-interface delete, each at most
\* once and only on the collaborators initialize_services constructed; bridge
\* stop, AP stop and disconnect are never left out for a constructed
\* collaborator, only the final virtual-interface delete can be missing.
C5_StopOrder ==
    pc = "done" =>
        /\ IsPrefix(StopCalls, ExpectedStop(w))
        /\ Len(StopCalls) + 1 >= Len(ExpectedStop(w))

C5_Witness ==
    /\ pc = "done" /\ result = "started"
    /\ StopCalls = <<"bridge_stop", "ap_stop", "disconnect", "delete_virtual_interface">>

\* C6: stop is best-effort: whatever way the teardown of one layer fails, the
\* teardown of every later layer is still attempted, so every stop attempts
\* the teardown of each constructed collaborator.
C6_StopBestEffort == pc = "done" => StopCalls = ExpectedStop(w)

\* C7: stop on an orchestrator that was never started issues no collaborator
\* call.
C7_StopIdempotent ==
    (pc = "done" /\ result \in {"no_interface", "create_virtual_interface"}) =>
        StopCalls = <<>>

\* C8: a start invoked while the orchestrator is already running (the loop's
\* re-invocation of start_services) issues no collaborator bring-up call.
C8_StartRejectedWhenRunning ==
    (pc = "loop" /\ ticks > 0) =>
        \A i \in 1..Len(w.calls) : w.calls[i] \notin BringUpNames

\* The lifecycle state run() is in: initialising until start_services has
\* returned (the teardown after a failed bring-up is its rollback), running
\* in the loop, stopping in the teardown that follows the loop.
State ==
    IF pc \in {"idle", "done"} THEN "Stopped"
    ELSE IF pc \in {"init", "start"} THEN "Initializing"
    ELSE IF pc \in {"loop", "recover"} THEN "Running"
    ELSE IF result = "started" THEN "Stopping"
    ELSE "Initializing"

LifecycleStates == {"Stopped", "Initializing", "Running", "Degraded", "Stopping", "Failed"}

Transitions ==
    { <<"Stopped", "Initializing">>, <<"Initializing", "Running">>,
      <<"Initializing", "Stopped">>, <<"Running", "Degraded">>,
      <<"Degraded", "Running">>, <<"Degraded", "Failed">>,
      <<"Running", "Stopping">>, <<"Degraded", "Stopping">>,
      <<"Failed", "Stopping">>, <<"Stopping", "Stopped">> }

C10_RecoveryBounded == recoveryFails <= 3

\* C11: recovery is single-flight: at most one start_services call made by
\* the loop is in progress, and no loop iteration begins (so none starts a
\* further recovery) while that call has not returned.
C11_SingleFlight ==
    /\ [](pending <= 1)
    /\ [][ticks' # ticks => pending = 0]_vars

\* A second iteration's recovery is in progress after the first one returned.
C11_Witness == pc = "recover" /\ pending = 1 /\ ticks >= 2

\* The start_services call made by the loop returns.
ReEntered == pc = "recover" /\ pc' = "loop"

\* C12: re-entry is idempotent: when the loop re-invokes start_services, a
\* step whose resource already exists is skipped: a running AP is not
\* started again and stays running, a running bridge is not started again
\* and keeps its device and its rules.
C12_IdempotentReentry ==
    [][ReEntered =>
          /\ w.ap_is_running =>
                Count(w'.calls, "ap_start") = 0 /\ w'.ap_is_running
          /\ w.bridge_is_running =>
                /\ Count(w'.calls, "bridge_start") = 0
                /\ w'.bridge_is_running /\ w'.br0
                /\ w'.iptables_rules = w.iptables_rules]_vars

\* The upstream is connected while the configured AP has no hostapd process.
APDead(x) == "ap" \in config /\ ~x.hostapd /\ get_connection_status(x).connected

\* C13: the loop detects the death of the AP as well as the loss of the
\* upstream: an iteration that begins with the AP dead and the upstream
\* connected re-drives bring-up.
C13_DetectsAPDeath ==
    [][(pc = "loop" /\ ticks' = ticks + 1 /\ APDead(w)) => pc' = "recover"]_vars

C15_StopExactlyOnce ==
    /\ [](pc = "done" => stops = 1)
    /\ [][stops' # stops => (stops = 0 /\ pc = "stop" /\ pc' = "done")]_vars
    /\ [][(pc \in {"loop", "recover"} /\ pc' \notin {"loop", "recover"}) => ~running]_vars

\* run() has returned through each of its exits.
C15_Witness ==
    /\ pc = "done" /\ stops = 1
    /\ result \in {"no_interface", "create_virtual_interface"}

Reverse(q) == [i \in 1..Len(q) |-> q[Len(q) + 1 - i]]

\* The iptables -D commands among cmds, as rule positions.
Deleted(cmds) ==
    LET d == SelectSeq(cmds, LAMBDA c : \E i \in 1..NumRules : c = RuleDel[i])
    IN  [k \in 1..Len(d) |-> CHOOSE i \in 1..NumRules : RuleDel[i] = d[k]]

\* C16: the rule stack is LIFO: stop() issues its removals in exactly the
\* reverse of the order in which the rules were installed, over however many
\* start() calls they were installed.
C16_RemovalReversesInstallation ==
    [][BridgeStop => Deleted(w'.cmds) = Reverse(w.added)]_vars

\* A stop that removed the rules two start() calls had installed.
C16_Witness == result = "stopped" /\ Deleted(w.cmds) = <<3, 2, 1, 2, 1>>

\* C17: rule removal is not short-circuited: stop() attempts the removal of
\* every rule on the stack even when the removal of an earlier one failed.
C17_EveryRemovalAttempted ==
    [][BridgeStop => Len(Deleted(w'.cmds)) = Len(w.iptables_rules)]_vars

\* A stop whose first removal failed (the rule was no longer in the kernel)
\* and which went on to the two other rules.
C17_Witness ==
    /\ result = "stopped"
    /\ w.errs # <<>> /\ w.errs[1] = RuleDel[3]
    /\ Deleted(w.cmds) = <<3, 2, 1>>

\* C18: bridge start is all-or-nothing: when a step of start() fails, every
\* step the call had completed is undone before it returns: the bridge
\* device, the forwarding switch, the kernel's rules and the rule stack are
\* as they were before the call.
C18_StartAllOrNothing ==
    [][(BridgeStart /\ result' \in BridgeFailures) =>
          /\ w'.br0 = w.br0 /\ w'.master = w.master
          /\ w'.ip_forward = w.ip_forward
          /\ w'.nat = w.nat
          /\ w'.iptables_rules = w.iptables_rules]_vars

\* The commands of a start() in which none fails.
StartOrder == <<"add", "master", "up", "forward_on">> \o RuleAdd

\* C19: a successful bridge start creates the bridge device, attaches the AP
\* interface, brings the bridge up, enables IP forwarding and installs the
\* rules, in this order, each rule going onto the stack as it is installed.
C19_StartOrder ==
    result = "started" =>
        /\ w.cmds = StartOrder /\ w.errs = <<>>
        /\ w.bridge_is_running
        /\ Len(w.iptables_rules) >= NumRules
        /\ SubSeq(w.iptables_rules, Len(w.iptables_rules) - NumRules + 1,
                  Len(w.iptables_rules)) = [i \in 1..NumRules |-> i]

\* A start that succeeded after an earlier one had failed at its third rule.
C19_Witness ==
    /\ result = "started" /\ w.br_up /\ w.master /\ w.ip_forward
    /\ w.iptables_rules = <<1, 2, 1, 2, 3>>

\* C20: bridge stop reverses bring-up layer by layer: every rule is removed
\* first, then forwarding is disabled, then the AP interface is detached,
\* then the bridge device is deleted; afterwards the service reports not
\* running.
C20_StopOrder ==
    result = "stopped" =>
        /\ w.cmds = [k \in 1..Len(Deleted(w.cmds)) |-> RuleDel[Deleted(w.cmds)[k]]]
                      \o <<"forward_off", "nomaster", "delete">>
        /\ ~w.bridge_is_running
        /\ ~w.br0 /\ ~w.master /\ ~w.ip_forward /\ w.iptables_rules = <<>>

\* A running bridge has been stopped, every command succeeding.
C20_Witness ==
    /\ result = "stopped" /\ w.errs = <<>>
    /\ w.cmds = <<"D3", "D2", "D1", "forward_off", "nomaster", "delete">>

\* C21: the bridge status probe is read-only and its sub-conditions are
\* independent: the probe changes nothing, and forwarding-enabled,
\* NAT-enabled and bridge-active are each reported from their own check,
\* whichever of the other checks fails.
C21_ProbeReadOnlyIndependent ==
    [][BridgeStatus =>
          /\ w' = w
          /\ ret'.fault # "forward" => ret'.status.forwarding_enabled = w.ip_forward
          /\ ret'.fault # "nat" => ret'.status.nat_enabled = NatPresent(w)
          /\ ret'.fault # "bridge" => ret'.status.bridge_active = {w.br0}]_vars

\* C22: at most one virtual interface is held per physical radio: a create
\* called while a handle is held fails, runs no creation command and leaves
\* the held handle and the interface as they are.
C22_CreateWhileHeld ==
    [][(CreateVif /\ w.virtual_interface) =>
          /\ ~ret'.ok
          /\ w'.cmds = <<>>
          /\ w'.virtual_interface /\ w'.vif = w.vif]_vars

\* A create has been refused while the handle was held.
C22_Witness ==
    /\ ret.op = "create_virtual_interface" /\ ~ret.ok
    /\ w.virtual_interface /\ w.vif /\ w.cmds = <<>>

\* C23: destroying the virtual interface when no handle is held is a no-op
\* that reports success.
C23_DeleteAbsentSucceeds ==
    [][(DeleteVif /\ ~w.virtual_interface) =>
          /\ ret'.ok
          /\ w'.cmds = <<>> /\ w'.vif = w.vif /\ ~w'.virtual_interface]_vars

\* The command c of the latest call was run and exited with status zero.
Launched(x, c) ==
    /\ \E i \in 1..Len(x.cmds) : x.cmds[i] = c
    /\ ~\E i \in 1..Len(x.errs) : x.errs[i] = c

\* What an APService is and holds: its flag, its configuration files, its
\* processes, the address of its interface.
APState(x) ==
    <<x.ap_is_running, x.hostapd_conf, x.dnsmasq_conf, x.hostapd, x.dnsmasq, x.ap_addr>>

\* C24: starting the AP while its configuration is not (or no longer)
\* written yields an error result and starts no hostapd or dnsmasq process.
C24_StartUnconfigured ==
    [][(APStart /\ ~(w.hostapd_conf /\ w.dnsmasq_conf)) =>
          /\ ~ret'.ok /\ ~ret'.raised
          /\ ~Launched(w', "hostapd") /\ ~Launched(w', "dnsmasq")]_vars

\* C25: start on an AP that is already running yields an error and leaves
\* the running AP untouched.
C25_StartWhileRunning ==
    [][(APStart /\ w.ap_is_running) =>
          /\ ~ret'.ok /\ ~ret'.raised
          /\ APState(w') = APState(w)]_vars

Verified(x) ==
    get_connection_status(x).connected /\ get_connection_status(x).ssid = "requested"

\* C28: connect reports success only when the status read after the request
\* shows connected with the requested SSID, and fails otherwise; the
\* remembered current connection is set only on such a success.
C28_ConnectVerified ==
    [][Connect =>
          /\ ret'.ok <=> Verified(w')
          /\ ret'.ok => w'.current_connection
          /\ ~ret'.ok => w'.current_connection = w.current_connection]_vars

\* A connect that reached another network than the requested one has failed.
C28_Witness ==
    /\ ret.op = "connect_to_network" /\ ~ret.ok
    /\ w.assoc /\ w.lease /\ w.other_ssid /\ ~w.current_connection

APCalls == {"configure_ap", "configure_dhcp", "ap_start", "ap_stop", "get_connected_clients"}

\* One of the named collaborator methods is in the log of calls.
Called(x, names) == \E i \in 1..Len(x.calls) : x.calls[i] \in names

\* C29: a layer whose configuration section is absent is skipped entirely:
\* without an "ap" section no method of the AP controller is called at any
\* point of the run, without an "upstream" section no connect is requested.
C29_AbsentSectionSkipped ==
    pc # "idle" =>
        /\ "ap" \notin config => ~Called(w, APCalls)
        /\ "upstream" \notin config => ~Called(w, {"connect_to_network"})

\* C30: no collaborator failure is swallowed: a run in which a collaborator
\* returned a failure during start, rollback or stop does not end reporting
\* that the services started.
C30_NoFailureSwallowed ==
    (pc = "done" /\ w.failed # <<>>) => result # "started"

\* Hardware addresses with a lease record in the lease file.
LeaseMacs(x) ==
    {x.lease_file[i].mac : i \in {j \in 1..Len(x.lease_file) : x.lease_file[j].fields >= 5}}

\* C27: the client list is the full outer join, by hardware address, of the
\* lease records and the station readings: every address of either source
\* is listed, with lease fields exactly when it has a lease record and a
\* signal exactly when it has a station reading.
C27_ClientsOuterJoin ==
    [][GetClients =>
          LET cl == ret'.clients
          IN  /\ {cl[i].mac_address : i \in DOMAIN cl} = LeaseMacs(w) \cup w.stations
              /\ \A i \in DOMAIN cl :
                    /\ cl[i].lease # {} <=> cl[i].mac_address \in LeaseMacs(w)
                    /\ cl[i].signal_strength # {} <=> cl[i].mac_address \in w.stations]_vars

\* The steps in which a mutating operation of run() begins or ends.
StartStep == pc = "start" /\ pc' # "start"
TickBegins == ticks' # ticks
TickEnds == pc = "recover" /\ pc' # "recover"
StopStep == stops' # stops

\* An iteration of the loop is inside its start_services call.
TickInFlight == pc = "recover"

\* C31: at most one mutating operation executes at a time: while a tick is
\* in flight no other tick, no start sequence and no stop sequence begins;
\* a tick begins only between the start sequence and the stop sequence; and
\* a termination signal, whenever it arrives, only clears the running flag.
C31_OneMutatingOperation ==
    /\ [][TickInFlight => (~TickBegins /\ ~StartStep /\ ~StopStep)]_vars
    /\ [][TickBegins => (pc = "loop" /\ pending = 0 /\ stops = 0)]_vars
    /\ [][StopStep => (pc = "stop" /\ pending = 0)]_vars
    /\ [][(running /\ ~running') => UNCHANGED <<pc, w, ticks, pending, stops>>]_vars

\* The termination signal has arrived in the middle of a tick.
C31_Witness == pc = "recover" /\ ~running /\ pending = 1 /\ stops = 0

\* C32: is_running of the BridgeService is truthful after any sequence of
\* start and stop calls: it is true only while the bridge device exists, it
\* becomes true only by a start that returns success, and a start that
\* returns failure never leaves it true with the bridge device removed.
C32_IsRunningTruthful ==
    /\ [](w.bridge_is_running => w.br0)
    /\ [][(~w.bridge_is_running /\ w'.bridge_is_running) =>
              (BridgeStart /\ result' = "started")]_vars
    /\ [][(BridgeStart /\ result' \in BridgeFailures) =>
              ~(w'.bridge_is_running /\ ~w'.br0)]_vars

\* A start on the running bridge has failed and the bridge is still there.
C32_Witness ==
    /\ result \in BridgeFailures /\ w.cmds = <<"add">>
    /\ w.bridge_is_running /\ w.br0

\* The latest call ended with the three commands of stop().
StopRan(x) ==
    /\ Len(x.cmds) >= 3
    /\ SubSeq(x.cmds, Len(x.cmds) - 2, Len(x.cmds))
          = <<"killall_hostapd", "killall_dnsmasq", "addr_flush">>

\* C33: AP start cleans up after itself: a start in which a command fails
\* invokes stop (the AP and DHCP processes are terminated, the interface
\* address is flushed) and returns failure; is_running becomes true only by
\* a start that returns success and false only by a stop that succeeds.
C33_StartCleansUp ==
    /\ [][(APStart /\ ~ret'.ok) =>
              /\ ~ret'.raised
              /\ StopRan(w')
              /\ ~w'.hostapd /\ ~w'.dnsmasq /\ ~w'.ap_addr]_vars
    /\ [][(~w.ap_is_running /\ w'.ap_is_running) => (APStart /\ ret'.ok)]_vars
    /\ [][(w.ap_is_running /\ ~w'.ap_is_running) => StopRan(w')]_vars

\* The AP layer and the bridge layer are up: flags, processes and device.
APHealthy(x) == x.ap_is_running /\ x.hostapd /\ x.dnsmasq
BridgeHealthy(x) == x.bridge_is_running /\ x.br0

\* C34: a recovery never degrades a healthy layer: when the AP and the
\* bridge are running as the loop re-invokes start_services for a lost
\* upstream, they are still running when that call has returned, whether
\* the reconnect succeeded or not.
C34_RecoveryKeepsHealthyLayers ==
    [][(ReEntered /\ APHealthy(w) /\ BridgeHealthy(w)) =>
          (APHealthy(w') /\ BridgeHealthy(w'))]_vars

\* The rules whose iptables -A of the latest call exited with status zero,
\* as rule positions, in the order of the commands.
Installed(x) ==
    LET a == SelectSeq(x.cmds, LAMBDA c : /\ \E i \in 1..NumRules : c = RuleAdd[i]
                                         /\ ~\E k \in 1..Len(x.errs) : x.errs[k] = c)
    IN  [k \in 1..Len(a) |-> CHOOSE i \in 1..NumRules : RuleAdd[i] = a[k]]

\* C35: the rule stack is an exact record of the installed rules: in every
\* reachable state of the BridgeService it holds, in installation order,
\* exactly the rules whose install command succeeded and for which no
\* removal has been issued; a start adds to it the rules it installed and
\* no other, a stop issues a removal for each rule on it and empties it.
C35_StackExactRecord ==
    /\ [](w.iptables_rules = w.added)
    /\ [][BridgeStart => w'.iptables_rules = w.iptables_rules \o Installed(w')]_vars
    /\ [][BridgeStop =>
              (Deleted(w'.cmds) = Reverse(w.iptables_rules) /\ w'.iptables_rules = <<>>)]_vars

\* Two starts have failed part-way, the second while installing its second
\* rule: the stack holds the three rules that went in.
C35_Witness ==
    /\ result = RuleFault[2] /\ w.errs = <<"A2">>
    /\ w.iptables_rules = <<1, 2, 1>>

\* C38: after a stop the rule stack is empty and is_running is false,
\* whatever the state before the call, so a second stop issues no rule
\* removal; a stop after a partially failed start removes the rules that
\* start had installed.
C38_StopEmptiesStack ==
    /\ [][BridgeStop =>
              /\ w'.iptables_rules = <<>> /\ ~w'.bridge_is_running
              /\ Deleted(bridge_stop(w').w.cmds) = <<>>]_vars
    /\ [][(BridgeStop /\ result \in BridgeFailures) =>
              /\ Deleted(w'.cmds) = Reverse(w.iptables_rules)
              /\ w'.nat = <<>>]_vars

\* A stop has removed the two rules a start installed before it failed at
\* its third.
C38_Witness ==
    /\ result = "stopped" /\ ~w.bridge_is_running /\ w.iptables_rules = <<>>
    /\ Deleted(w.cmds) = <<2, 1>> /\ w.errs = <<"nomaster", "delete">>

\* A start_services call returns: the one of run() or one made by the loop.
StartCall == pc \in {"start", "recover"} /\ pc' # pc
StartFailed ==
    \/ pc = "start" /\ pc' = "stop"
    \/ pc = "recover" /\ recoveryFails' > recoveryFails

\* The bring-up steps of a configuration, in the order of start_services.
Steps(cfg) ==
    (IF "upstream" \in cfg THEN <<"connect_to_network">> ELSE <<>>)
    \o (IF "ap" \in cfg THEN <<"configure_ap", "configure_dhcp", "ap_start">> ELSE <<>>)
    \o <<"bridge_start">>

BringUps(calls) == SelectSeq(calls, LAMBDA c : c \in BringUpNames)

\* C36: start_services stops at the first failing step: the bring-up steps
\* a call invokes are a beginning of the configured sequence, each invoked
\* once; when one of them returns failure it is the last one invoked and the
\* call returns failure; a call that returns success has invoked them all.
C36_StopsAtFirstFailure ==
    [][StartCall =>
          LET b == BringUps(SubSeq(w'.calls, Len(w.calls) + 1, Len(w'.calls)))
              f == BringUps(w'.failed)
          IN  /\ IsPrefix(b, Steps(config))
              /\ f # <<>> => (StartFailed /\ Len(f) = 1 /\ f[1] = b[Len(b)])
              /\ StartFailed => f # <<>>
              /\ ~StartFailed => b = Steps(config)]_vars

\* The DHCP configuration failed: the AP and the bridge were not started.
C36_Witness ==
    /\ pc = "stop" /\ result = "configure_dhcp" /\ config = ConfigKeys
    /\ BringUps(w.calls) = <<"connect_to_network", "configure_ap", "configure_dhcp">>
    /\ BringUps(w.failed) = <<"configure_dhcp">>

\* An iteration of the loop whose status read raised.
TickAbandoned == ticks' # ticks /\ ret'.raised

\* C37: a failing health probe does not end supervision: an iteration whose
\* status read raises is abandoned without launching a recovery and without
\* tearing anything down, and run() stays in its loop, where the next
\* iteration begins unless a stop signal has been received.
C37_ProbeFailureKeepsSupervising ==
    [][TickAbandoned =>
          /\ pc' = "loop" /\ running' = running
          /\ pending' = pending /\ stops' = stops
          /\ w'.calls = <<"get_connection_status">>
          /\ w' = Log([w EXCEPT !.calls = <<>>, !.failed = <<>>],
                      "get_connection_status")]_vars

\* The status read has raised in a second iteration; the AP and the bridge
\* are running and run() is in its loop.
C37_Witness ==
    /\ pc = "loop" /\ running /\ ticks >= 2
    /\ ret.op = "get_connection_status" /\ ret.raised
    /\ APHealthy(w) /\ BridgeHealthy(w)

====
